---- MODULE Spec2Model ----
(***************************************************************************)
(* ShaderSet (src/shaderset.h, src/shaderset.cpp lines 1-295): a registry  *)
(* of GL shader objects and programs that are recompiled and relinked when *)
(* the timestamps of their source files advance.                           *)
(*                                                                         *)
(* Strings are sequences of tokens (a token is a piece of text that the    *)
(* code never looks into); "+" on std::string is \o.  A pointer into a     *)
(* std::map node is the node's heap address, a positive integer.           *)
(***************************************************************************)
EXTENDS Integers, Sequences, FiniteSets, TLC

\* ------------------------------------------------------------ bounds
\* largest modification time a file takes
MaxTime == 2
\* longest argument list handed to AddProgram / AddProgramFromExts
MaxLen == 2

\* ------------------------------------------------------------ inputs
AVert == <<"a", ".", "vert">>
BFrag == <<"b", ".", "frag">>
NoDot == <<"c">>
BadExt == <<"d", ".", "txt">>
TwoDots == <<"a", ".", "vert", ".", "bak">>

\* the paths handed to AddProgramFromExts
ExtPaths == {AVert, NoDot, BadExt, TwoDots}
\* the (file name, shader type) pairs handed to AddProgram: one file that
\* holds two stages
TypedPool == {<<AVert, "GL_VERTEX_SHADER">>, <<AVert, "GL_FRAGMENT_SHADER">>}
\* the argument lists of the specification that also runs UpdatePrograms:
\* a one-shader program and a two-shader program that share a shader
SmallTypedLists ==
    {<<<<AVert, "GL_VERTEX_SHADER">>>>,
     <<<<BFrag, "GL_FRAGMENT_SHADER">>, <<AVert, "GL_VERTEX_SHADER">>>>}
SmallExtLists == {<<AVert>>, <<AVert, BFrag>>, <<AVert, BadExt>>}
\* the one shader of the specification that also sets version and preamble
OneTypedPool == {<<AVert, "GL_VERTEX_SHADER">>}

GoodText == <<"void main(){}">>
BadText == <<"syntax error">>
Texts == {GoodText, BadText}
Versions == {<<"450">>}
Preambles == {<<"#define X 1">>}

\* sequences over S of length at most n
SeqsUpTo(S, n) == UNION {[1..k -> S] : k \in 0..n}

\* ShaderNameTypePair (the key of mShaders)
NameType(pair) == [Name |-> pair[1], Type |-> pair[2]]

\* std::string::find_last_of(c): the last position of c, 0 for npos
FindLastOf(s, c) ==
    IF \E i \in 1..Len(s) : s[i] = c
    THEN CHOOSE i \in 1..Len(s) : s[i] = c /\ \A j \in (i+1)..Len(s) : s[j] # c
    ELSE 0

\* std::string::substr(pos) with pos counted from 1
Substr(s, pos) == SubSeq(s, pos, Len(s))

\* the chain without its final else: an unknown extension keeps a default type
ShaderTypeOfExtDefault(ext) ==
    IF ext = <<"frag">> THEN "GL_FRAGMENT_SHADER"
    ELSE IF ext = <<"geom">> THEN "GL_GEOMETRY_SHADER"
    ELSE IF ext = <<"tesc">> THEN "GL_TESS_CONTROL_SHADER"
    ELSE IF ext = <<"tese">> THEN "GL_TESS_EVALUATION_SHADER"
    ELSE IF ext = <<"comp">> THEN "GL_COMPUTE_SHADER"
    ELSE "GL_VERTEX_SHADER"

\* the if/else chain of AddProgramFromExts: the shader type of an extension,
\* "none" where the chain ends in return nullptr
ShaderTypeOfExt(ext) ==
    IF ext = <<"vert">> THEN "GL_VERTEX_SHADER"
    ELSE IF ext = <<"frag">> THEN "GL_FRAGMENT_SHADER"
    ELSE IF ext = <<"geom">> THEN "GL_GEOMETRY_SHADER"
    ELSE IF ext = <<"tesc">> THEN "GL_TESS_CONTROL_SHADER"
    ELSE IF ext = <<"tese">> THEN "GL_TESS_EVALUATION_SHADER"
    ELSE IF ext = <<"comp">> THEN "GL_COMPUTE_SHADER"
    ELSE "none"

\* one iteration of the loop of AddProgramFromExts: the shader type the
\* path gets, "none" where the iteration returns nullptr
TypeOfPath(shader) ==
    LET extLoc == FindLastOf(shader, ".")
    IN IF extLoc = 0 THEN "none" ELSE ShaderTypeOfExt(Substr(shader, extLoc + 1))

\* every shader identity the given inputs can register
IdentitiesOf(typedPool, extPaths) ==
    {NameType(p) : p \in typedPool}
    \cup {NameType(<<p, TypeOfPath(p)>>) : p \in {q \in extPaths : TypeOfPath(q) # "none"}}
Identities == IdentitiesOf(TypedPool, ExtPaths)
SmallIdentities == IdentitiesOf({}, {AVert, BFrag})
\* the files on disk that shaders are loaded from
SrcPaths == {id.Name : id \in Identities \cup SmallIdentities}
\* the file handed to SetPreambleFile
PreambleFile == <<"common", ".", "glsl">>

VARIABLES
    mVersion,    \* std::string mVersion
    mPreamble,   \* std::string mPreamble
    mShaders,    \* ShaderNameTypePair -> [Handle, Timestamp]
    nodeAddr,    \* ShaderNameTypePair -> address of its node in mShaders
    mPrograms,   \* vector of node addresses -> [PublicHandle, InternalHandle]
    glShaders,   \* native shader objects: name -> [type, source, compiled]
    glPrograms,  \* native program objects: name -> [attached, linked],
                 \* attached being the shaders in the order of glAttachShader
    files,       \* path -> [exists, time, text]
    calls,       \* history: the identities every AddProgram call was given
                 \* and the pointer it returned
    linkFailed,  \* history: the programs whose latest link has failed
    last         \* the last step: its name, its argument list, what it
                 \* returned, the shaders it found updated, for every
                 \* link it made the status, the public handle before and
                 \* whether the link before it had failed,
                 \* and how often it deleted which native object

vars == <<mVersion, mPreamble, mShaders, nodeAddr, mPrograms, glShaders,
          glPrograms, files, calls, linkFailed, last>>

\* ------------------------------------------------------------ helpers
Range(f) == {f[x] : x \in DOMAIN f}
EmptyMap == [x \in {} |-> x]

\* the identity whose mShaders node lives at address a
IdAt(addr, a) == CHOOSE id \in DOMAIN addr : addr[id] = a
\* the identities a program key points to
KeyIds(addr, key) == {IdAt(addr, key[i]) : i \in 1..Len(key)}

\* std::sort on a vector of pointers: ascending addresses
RECURSIVE Sort(_)
Sort(s) ==
    IF Len(s) = 0 THEN <<>>
    ELSE LET m == CHOOSE i \in 1..Len(s) : \A j \in 1..Len(s) : s[i] <= s[j]
         IN <<s[m]>> \o Sort(SubSeq(s, 1, m - 1) \o SubSeq(s, m + 1, Len(s)))

\* the vector left as it is
UniqueKeepsAll(s) == s

\* erase(std::unique(...)): drops an element equal to the one before it
RECURSIVE Unique(_)
Unique(s) ==
    IF Len(s) <= 1 THEN s
    ELSE LET r == Unique(SubSeq(s, 1, Len(s) - 1))
         IN IF s[Len(s)] = s[Len(s) - 1] THEN r ELSE Append(r, s[Len(s)])

\* the key left in the order of the argument list
CanonicalUnsorted(shaderNameTypes) == shaderNameTypes

\* "ensure the programs have a canonical order"
Canonical(shaderNameTypes) == Unique(Sort(shaderNameTypes))

\* glCreateShader / glCreateProgram: a name no object has, never 0
GLNewName(shaders, programs) ==
    Cardinality(DOMAIN shaders \cup DOMAIN programs) + 1

\* ------------------------------------------------------------ files
\* the failure of stat handed on as -1, the largest uint64_t
GetShaderFileTimestampMinusOne(filename) ==
    IF files[filename].exists THEN files[filename].time ELSE MaxTime + 1

\* GetShaderFileTimestamp: 0 when the file cannot be opened / stat fails
GetShaderFileTimestamp(filename) ==
    IF files[filename].exists THEN files[filename].time ELSE 0

\* ShaderStringFromFile: "" when the stream does not open
ShaderStringFromFile(filename) ==
    IF files[filename].exists THEN files[filename].text ELSE <<>>

\* ------------------------------------------------------------ bookkeeping
\* what AddProgram returns: nullptr, or the address of the PublicHandle of
\* the mPrograms node with the given key
NullRef == [null |-> TRUE, key |-> <<>>]
RefTo(key) == [null |-> FALSE, key |-> key]

\* the record of an operation that returns nothing and calls no GL function
NoteOp(name) ==
    [op |-> name, list |-> <<>>, ret |-> NullRef, again |-> FALSE,
     updated |-> {}, linked |-> EmptyMap,
     deleted |-> [shaders |-> EmptyMap, programs |-> EmptyMap]]

\* the state of the program right after construction, files as found
Init ==
    /\ mVersion = <<>>
    /\ mPreamble = <<>>
    /\ mShaders = EmptyMap
    /\ nodeAddr = EmptyMap
    /\ mPrograms = EmptyMap
    /\ glShaders = EmptyMap
    /\ glPrograms = EmptyMap
    /\ files = [p \in SrcPaths \cup {PreambleFile} |->
                    [exists |-> TRUE, time |-> 1, text |-> GoodText]]
    /\ calls = {}
    /\ linkFailed = {}
    /\ last = NoteOp("ShaderSet")

\* ------------------------------------------------------------ AddProgram
\* the state AddProgram works on
Tables == [shaders |-> mShaders, addr |-> nodeAddr, programs |-> mPrograms,
           glS |-> glShaders, glP |-> glPrograms]

\* the new node stamped as if its file had been seen
EmplaceShaderStamped(t, id, alloc) ==
    IF id \in DOMAIN t.shaders THEN t
    ELSE [t EXCEPT !.shaders = @ @@ (id :> [Handle |-> 0, Timestamp |-> 1]),
                   !.addr = @ @@ (id :> alloc[id])]

\* mShaders.emplace(key, ShaderHandleTimestampPair{}): a new node, at the
\* address the allocator hands out, only when the key is absent
EmplaceShader(t, id, alloc) ==
    IF id \in DOMAIN t.shaders THEN t
    ELSE [t EXCEPT !.shaders = @ @@ (id :> [Handle |-> 0, Timestamp |-> 0]),
                   !.addr = @ @@ (id :> alloc[id])]

\* glCreateShader without the test of the handle
CreateShaderAlways(t, id) ==
    LET h == GLNewName(t.glS, t.glP)
    IN [t EXCEPT !.shaders[id].Handle = h,
                 !.glS = @ @@ (h :> [type |-> id.Type, source |-> <<>>,
                                     compiled |-> FALSE])]

\* if (!foundShader->second.Handle) Handle = glCreateShader(type)
CreateShaderIfNone(t, id) ==
    IF t.shaders[id].Handle # 0 THEN t
    ELSE LET h == GLNewName(t.glS, t.glP)
         IN [t EXCEPT !.shaders[id].Handle = h,
                      !.glS = @ @@ (h :> [type |-> id.Type, source |-> <<>>,
                                          compiled |-> FALSE])]

\* the first loop of AddProgram from element i on; ptrs is shaderNameTypes
RECURSIVE FindOrCreateShaders(_, _, _, _, _)
FindOrCreateShaders(typedShaders, i, t, ptrs, alloc) ==
    IF i > Len(typedShaders) THEN [t |-> t, ptrs |-> ptrs]
    ELSE LET id == NameType(typedShaders[i])
             t2 == CreateShaderIfNone(EmplaceShader(t, id, alloc), id)
         IN FindOrCreateShaders(typedShaders, i + 1, t2,
                                Append(ptrs, t2.addr[id]), alloc)

\* the public handle of a program that is found set back to 0
EmplaceProgramReset(t, key) ==
    IF key \in DOMAIN t.programs
    THEN [t EXCEPT !.programs[key].PublicHandle = 0]
    ELSE [t EXCEPT !.programs =
              @ @@ (key :> [PublicHandle |-> 0, InternalHandle |-> 0])]

\* mPrograms.emplace(key, ProgramPublicInternalPair{})
EmplaceProgram(t, key) ==
    IF key \in DOMAIN t.programs THEN t
    ELSE [t EXCEPT !.programs =
              @ @@ (key :> [PublicHandle |-> 0, InternalHandle |-> 0])]

\* the new program published at once
CreateProgramPublished(t, key) ==
    IF t.programs[key].InternalHandle # 0 THEN t
    ELSE LET h == GLNewName(t.glS, t.glP)
         IN [t EXCEPT !.programs[key] = [PublicHandle |-> h, InternalHandle |-> h],
                      !.glP = @ @@ (h :>
                          [attached |-> [i \in 1..Len(key) |->
                                             t.shaders[IdAt(t.addr, key[i])].Handle],
                           linked |-> FALSE])]

\* a native program created by every registration
CreateProgramAlways(t, key) ==
    LET h == GLNewName(t.glS, t.glP)
    IN [t EXCEPT !.programs[key] = [PublicHandle |-> 0, InternalHandle |-> h],
                 !.glP = @ @@ (h :>
                     [attached |-> [i \in 1..Len(key) |->
                                        t.shaders[IdAt(t.addr, key[i])].Handle],
                      linked |-> FALSE])]

\* the shaders attached again by the registration of an existing program
CreateProgramReattach(t, key) ==
    LET handles == [i \in 1..Len(key) |-> t.shaders[IdAt(t.addr, key[i])].Handle]
        h == GLNewName(t.glS, t.glP)
    IN IF t.programs[key].InternalHandle # 0
       THEN [t EXCEPT !.glP[t.programs[key].InternalHandle].attached = @ \o handles]
       ELSE [t EXCEPT !.programs[key] = [PublicHandle |-> 0, InternalHandle |-> h],
                      !.glP = @ @@ (h :> [attached |-> handles, linked |-> FALSE])]

\* if (!InternalHandle) { PublicHandle = 0; InternalHandle = glCreateProgram();
\* glAttachShader for every shader of the key }
CreateProgramIfNone(t, key) ==
    IF t.programs[key].InternalHandle # 0 THEN t
    ELSE LET h == GLNewName(t.glS, t.glP)
         IN [t EXCEPT !.programs[key] = [PublicHandle |-> 0, InternalHandle |-> h],
                      !.glP = @ @@ (h :>
                          [attached |-> [i \in 1..Len(key) |->
                                             t.shaders[IdAt(t.addr, key[i])].Handle],
                           linked |-> FALSE])]

\* ShaderSet::AddProgram: the tables after the call and the returned pointer
AddProgramResult(typedShaders, alloc) ==
    LET found == FindOrCreateShaders(typedShaders, 1, Tables, <<>>, alloc)
        key == Canonical(found.ptrs)
        t == CreateProgramIfNone(EmplaceProgram(found.t, key), key)
    IN [t |-> t, ret |-> RefTo(key)]

\* the allocator: a distinct heap address for every node of mShaders, the
\* existing ones kept; only the order of the addresses matters, so as many
\* addresses as there are identities give every order
Injections(identities) ==
    {a \in [identities -> 1..Cardinality(identities)] :
        \A x, y \in identities : x # y => a[x] # a[y]}
Allocations(injections) ==
    {a \in injections : \A x \in DOMAIN nodeAddr : a[x] = nodeAddr[x]}

Install(t) ==
    /\ mShaders' = t.shaders
    /\ nodeAddr' = t.addr
    /\ mPrograms' = t.programs
    /\ glShaders' = t.glS
    /\ glPrograms' = t.glP

\* the identities an argument list of AddProgram names
IdsOf(typedShaders) == {NameType(typedShaders[i]) : i \in 1..Len(typedShaders)}

\* the bookkeeping of a call of AddProgram: again says that an earlier call
\* was given the same identities
NoteAddProgram(name, list, typedShaders, ret) ==
    /\ calls' = calls \cup {[args |-> IdsOf(typedShaders), ret |-> ret]}
    /\ last' = [NoteOp(name) EXCEPT
                   !.list = list, !.ret = ret,
                   !.again = \E c \in calls : c.args = IdsOf(typedShaders)]

AddProgramOn(lists, identities) ==
    \E typedShaders \in lists, alloc \in Allocations(identities) :
        LET r == AddProgramResult(typedShaders, alloc)
        IN /\ Install(r.t)
           /\ NoteAddProgram("AddProgram", typedShaders, typedShaders, r.ret)
           /\ UNCHANGED <<mVersion, mPreamble, files, linkFailed>>

\* ShaderSet::AddProgramFromExts: an iteration of the loop returns nullptr
ReturnsNull(shaders) == \E i \in 1..Len(shaders) : TypeOfPath(shaders[i]) = "none"

\* the loop ending one element early
TypedShadersOfButLast(shaders) ==
    [i \in 1..(Len(shaders) - 1) |-> <<shaders[i], TypeOfPath(shaders[i])>>]

\* the typed list the loop builds when no iteration returns
TypedShadersOf(shaders) ==
    [i \in 1..Len(shaders) |-> <<shaders[i], TypeOfPath(shaders[i])>>]

AddProgramFromExtsOn(lists, identities) ==
    \E shaders \in lists, alloc \in Allocations(identities) :
        IF ReturnsNull(shaders)
        THEN /\ last' = [NoteOp("AddProgramFromExts") EXCEPT !.list = shaders]
             /\ UNCHANGED <<mVersion, mPreamble, mShaders, nodeAddr, mPrograms,
                            glShaders, glPrograms, files, calls, linkFailed>>
        ELSE LET typedShaders == TypedShadersOf(shaders)
                 r == AddProgramResult(typedShaders, alloc)
             IN /\ Install(r.t)
                /\ NoteAddProgram("AddProgramFromExts", shaders, typedShaders, r.ret)
                /\ UNCHANGED <<mVersion, mPreamble, files, linkFailed>>

\* ------------------------------------------------------------ configuration
SetVersion ==
    \E version \in Versions :
        /\ mVersion' = version
        /\ last' = NoteOp("SetVersion")
        /\ UNCHANGED <<mPreamble, mShaders, nodeAddr, mPrograms, glShaders,
                       glPrograms, files, calls, linkFailed>>

SetPreamble ==
    \E preamble \in Preambles :
        /\ mPreamble' = preamble
        /\ last' = NoteOp("SetPreamble")
        /\ UNCHANGED <<mVersion, mShaders, nodeAddr, mPrograms, glShaders,
                       glPrograms, files, calls, linkFailed>>

\* SetPreamble(ShaderStringFromFile(preambleFilename.c_str()))
SetPreambleFile ==
    \E preambleFilename \in {PreambleFile} :
        /\ mPreamble' = ShaderStringFromFile(preambleFilename)
        /\ last' = NoteOp("SetPreambleFile")
        /\ UNCHANGED <<mVersion, mShaders, nodeAddr, mPrograms, glShaders,
                       glPrograms, files, calls, linkFailed>>

\* ------------------------------------------------------------ UpdatePrograms
\* any difference of the timestamps taken for a change
ChangedIfDifferent(id) == GetShaderFileTimestamp(id.Name) # mShaders[id].Timestamp

\* the preamble file polled along with the file of the shader
ChangedOrPreambleNewer(id) ==
    \/ GetShaderFileTimestamp(id.Name) > mShaders[id].Timestamp
    \/ GetShaderFileTimestamp(PreambleFile) > mShaders[id].Timestamp

\* "find all shaders with updated timestamps": the shaders whose polled
\* timestamp is greater than the stored one
Changed(id) == GetShaderFileTimestamp(id.Name) > mShaders[id].Timestamp
UpdatedShaders == {id \in DOMAIN mShaders : Changed(id)}

\* the timestamp stored only for a shader that compiles
PolledShadersIfCompiled ==
    [id \in DOMAIN mShaders |->
        IF /\ Changed(id)
           /\ BadText[1] \notin Range(mVersion \o mPreamble
                                         \o ShaderStringFromFile(id.Name))
        THEN [mShaders[id] EXCEPT !.Timestamp = GetShaderFileTimestamp(id.Name)]
        ELSE mShaders[id]]

\* the first loop: the timestamps of the updated shaders are stored
PolledShaders ==
    [id \in DOMAIN mShaders |->
        IF Changed(id)
        THEN [mShaders[id] EXCEPT !.Timestamp = GetShaderFileTimestamp(id.Name)]
        ELSE mShaders[id]]

\* the strings[] handed to glShaderSource for a shader
SourceStrings(id) ==
    LET version == <<"#version ">> \o mVersion \o <<"\n">>
        premable == mPreamble \o <<"\n">>
        source == ShaderStringFromFile(id.Name) \o <<"\n">>
    IN <<version, premable, source>>

\* glShaderSource joins the strings it is handed
RECURSIVE Joined(_)
Joined(strings) ==
    IF Len(strings) = 0 THEN <<>> ELSE Head(strings) \o Joined(Tail(strings))

\* glCompileShader + GL_COMPILE_STATUS: the native compiler rejects a source
\* that holds erroneous text
GLCompileStatus(strings) == \A i \in DOMAIN Joined(strings) : Joined(strings)[i] # BadText[1]

\* the second loop left at the first shader that does not compile
CompiledShadersUntilFailure ==
    LET failing == {mShaders[id].Handle : id \in
                       {x \in UpdatedShaders : ~GLCompileStatus(SourceStrings(x))}}
    IN [h \in DOMAIN glShaders |->
           IF /\ \E id \in UpdatedShaders : mShaders[id].Handle = h
              /\ \A f \in failing : h <= f
           THEN LET id == CHOOSE x \in UpdatedShaders : mShaders[x].Handle = h
                IN [glShaders[h] EXCEPT
                       !.source = SourceStrings(id),
                       !.compiled = GLCompileStatus(SourceStrings(id))]
           ELSE glShaders[h]]

\* the second loop: every updated shader is given its source and compiled
CompiledShaders ==
    [h \in DOMAIN glShaders |->
        IF \E id \in UpdatedShaders : mShaders[id].Handle = h
        THEN LET id == CHOOSE x \in UpdatedShaders : mShaders[x].Handle = h
             IN [glShaders[h] EXCEPT
                    !.source = SourceStrings(id),
                    !.compiled = GLCompileStatus(SourceStrings(id))]
        ELSE glShaders[h]]

\* every program linked as soon as any shader is updated
ProgramNeedsRelinkAny(key) == UpdatedShaders # {}

\* a program without a valid handle linked in every pass
ProgramNeedsRelinkOrInvalid(key) ==
    \/ mPrograms[key].PublicHandle = 0
    \/ \E i \in 1..Len(key) : \E id \in UpdatedShaders : nodeAddr[id] = key[i]

\* programNeedsRelink: a pointer of the key is the address of an updated shader
ProgramNeedsRelink(key) ==
    \E i \in 1..Len(key) : \E id \in UpdatedShaders : nodeAddr[id] = key[i]

\* glLinkProgram + GL_LINK_STATUS: the link fails when an attached shader is
\* not compiled, and may fail for reasons of its own
GLLinkOutcomes(glS, attached) ==
    IF \A h \in Range(attached) : glS[h].compiled THEN {TRUE, FALSE} ELSE {FALSE}

\* a failed link that leaves the public handle as it was
AfterLinkKeep(program, status) ==
    IF ~status
    THEN program
    ELSE [program EXCEPT !.PublicHandle = program.InternalHandle]

\* the link status stored in place of the handle
AfterLinkStatus(program, status) ==
    IF ~status
    THEN [program EXCEPT !.PublicHandle = 0]
    ELSE [program EXCEPT !.PublicHandle = 1]

\* a public handle that stays 0 once it is 0
AfterLinkLatched(program, status) ==
    IF status /\ program.PublicHandle # 0
    THEN [program EXCEPT !.PublicHandle = program.InternalHandle]
    ELSE [program EXCEPT !.PublicHandle = 0]

\* the handles of a program after a link with the given status
AfterLink(program, status) ==
    IF ~status
    THEN [program EXCEPT !.PublicHandle = 0]
    ELSE [program EXCEPT !.PublicHandle = program.InternalHandle]

UpdatePrograms ==
    LET relinked == {key \in DOMAIN mPrograms : ProgramNeedsRelink(key)}
    IN \E status \in [relinked -> BOOLEAN] :
        /\ \A key \in relinked :
              status[key] \in GLLinkOutcomes(CompiledShaders,
                                  glPrograms[mPrograms[key].InternalHandle].attached)
        /\ mShaders' = PolledShaders
        /\ glShaders' = CompiledShaders
        /\ mPrograms' = [key \in DOMAIN mPrograms |->
                            IF key \in relinked
                            THEN AfterLink(mPrograms[key], status[key])
                            ELSE mPrograms[key]]
        /\ glPrograms' = [h \in DOMAIN glPrograms |->
                            IF \E key \in relinked : mPrograms[key].InternalHandle = h
                            THEN [glPrograms[h] EXCEPT !.linked =
                                     status[CHOOSE key \in relinked :
                                                mPrograms[key].InternalHandle = h]]
                            ELSE glPrograms[h]]
        /\ last' = [NoteOp("UpdatePrograms") EXCEPT
                       !.updated = UpdatedShaders,
                       !.linked = [key \in relinked |->
                                     [status |-> status[key],
                                      was |-> mPrograms[key].PublicHandle,
                                      retry |-> key \in linkFailed]]]
        /\ linkFailed' = (linkFailed \ relinked) \cup {key \in relinked : ~status[key]}
        /\ UNCHANGED <<mVersion, mPreamble, nodeAddr, files, calls>>

\* ------------------------------------------------------------ ~ShaderSet
\* the object exists: its destructor has not run
Alive == last.op # "~ShaderSet"

\* the first loop: glDeleteShader(shader.second.Handle) for every entry of
\* mShaders; how often every name is handed to it
DeletedShaders ==
    [h \in {mShaders[id].Handle : id \in DOMAIN mShaders} |->
        Cardinality({id \in DOMAIN mShaders : mShaders[id].Handle = h})]

\* the second loop handing over the handle the application reads
DeletedProgramsPublic ==
    [h \in {mPrograms[key].PublicHandle : key \in DOMAIN mPrograms} |->
        Cardinality({key \in DOMAIN mPrograms : mPrograms[key].PublicHandle = h})]

\* the second loop: glDeleteProgram(program.second.InternalHandle) for every
\* entry of mPrograms
DeletedPrograms ==
    [h \in {mPrograms[key].InternalHandle : key \in DOMAIN mPrograms} |->
        Cardinality({key \in DOMAIN mPrograms : mPrograms[key].InternalHandle = h})]

\* glDeleteProgram frees the programs it is handed; glDeleteShader frees a
\* shader once no program that is left has it attached; the members of the
\* object go with it
Destructor ==
    LET programsLeft == DOMAIN glPrograms \ DOMAIN DeletedPrograms
        shadersLeft == {h \in DOMAIN glShaders :
                           \/ h \notin DOMAIN DeletedShaders
                           \/ \E q \in programsLeft : h \in Range(glPrograms[q].attached)}
    IN /\ Alive
       /\ glPrograms' = [h \in programsLeft |-> glPrograms[h]]
       /\ glShaders' = [h \in shadersLeft |-> glShaders[h]]
       /\ mShaders' = EmptyMap
       /\ nodeAddr' = EmptyMap
       /\ mPrograms' = EmptyMap
       /\ linkFailed' = {}
       /\ last' = [NoteOp("~ShaderSet") EXCEPT
                      !.deleted = [shaders |-> DeletedShaders,
                                   programs |-> DeletedPrograms]]
       /\ UNCHANGED <<mVersion, mPreamble, files, calls>>

\* ------------------------------------------------------------ the file system
\* a file is written: any text, any modification time
SaveFileOn(paths) ==
    \E p \in paths, t \in 1..MaxTime, text \in Texts :
        /\ files[p] # [exists |-> TRUE, time |-> t, text |-> text]
        /\ files' = [files EXCEPT ![p] = [exists |-> TRUE, time |-> t, text |-> text]]
        /\ last' = NoteOp("files")
        /\ UNCHANGED <<mVersion, mPreamble, mShaders, nodeAddr, mPrograms,
                       glShaders, glPrograms, calls, linkFailed>>

\* a file is removed or becomes unreadable
RemoveFileOn(paths) ==
    \E p \in paths :
        /\ files[p].exists
        /\ files' = [files EXCEPT ![p] = [exists |-> FALSE, time |-> 0, text |-> <<>>]]
        /\ last' = NoteOp("files")
        /\ UNCHANGED <<mVersion, mPreamble, mShaders, nodeAddr, mPrograms,
                       glShaders, glPrograms, calls, linkFailed>>

\* ------------------------------------------------------------ specifications
TypedLists == SeqsUpTo(TypedPool, MaxLen)
ExtLists == SeqsUpTo(ExtPaths, MaxLen)
Addresses == Injections(Identities)
SmallAddresses == Injections(SmallIdentities)
OneTypedLists == SeqsUpTo(OneTypedPool, MaxLen)
OneAddresses == Injections(IdentitiesOf(OneTypedPool, {}))

AddProgram == AddProgramOn(TypedLists, Addresses)
AddProgramFromExts == AddProgramFromExtsOn(ExtLists, Addresses)
AddProgramSmall == AddProgramOn(SmallTypedLists, SmallAddresses)
AddProgramFromExtsSmall == AddProgramFromExtsOn(SmallExtLists, SmallAddresses)
AddProgramOne == AddProgramOn(OneTypedLists, OneAddresses)
SaveFile == SaveFileOn(SrcPaths)
RemoveFile == RemoveFileOn(SrcPaths)
SaveFileOne == SaveFileOn({AVert})
SavePreambleFile == SaveFileOn({PreambleFile})

\* registration alone, on the larger inputs
NextReg ==
    \/ AddProgram
    \/ AddProgramFromExts

SpecReg == Init /\ [][NextReg]_vars

\* registration on the smaller inputs, updates and a changing file system
Next ==
    \/ AddProgramSmall
    \/ AddProgramFromExtsSmall
    \/ UpdatePrograms
    \/ SaveFile
    \/ RemoveFile

Spec == Init /\ [][Next]_vars

\* one shader, with the version and the preamble being set between updates
NextSource ==
    \/ AddProgramOne
    \/ SetVersion
    \/ SetPreamble
    \/ SetPreambleFile
    \/ UpdatePrograms
    \/ SaveFileOne
    \/ SavePreambleFile

SpecSource == Init /\ [][NextSource]_vars

\* registration, then the end of the object
NextTeardown ==
    \/ Alive /\ AddProgram
    \/ Alive /\ AddProgramFromExts
    \/ Destructor

SpecTeardown == Init /\ [][NextTeardown]_vars

\* ------------------------------------------------------------ properties
\* the program entries and the native programs made for a set of identities
ProgramsFor(ids) == {key \in DOMAIN mPrograms : KeyIds(nodeAddr, key) = ids}
NativeProgramsFor(ids) ==
    {h \in DOMAIN glPrograms :
        Range(glPrograms[h].attached) = {mShaders[id].Handle : id \in ids}}
\* the identities the calls so far have registered
Registered == UNION {c.args : c \in calls}
\* the pointers AddProgram collects for the argument list of the last call
PointersOfLast ==
    [i \in 1..Len(last.list) |-> nodeAddr[NameType(last.list[i])]]

\* C1: two AddProgram calls given the same set of (path, stage) pairs, in
\* any order and with any repeats, return the same pointer; mPrograms holds
\* exactly one entry for the set and one native program was created for it.
C1_SameSetSameProgram ==
    /\ \A c1, c2 \in calls : c1.args = c2.args => c1.ret = c2.ret
    /\ \A c \in calls :
          /\ ~c.ret.null
          /\ ProgramsFor(c.args) = {c.ret.key}
          /\ Cardinality(NativeProgramsFor(c.args)) = 1

\* a two-shader program registered again, by a list that is not in the
\* order of its key
C1_Witness ==
    /\ last.op = "AddProgram"
    /\ last.again
    /\ Len(last.ret.key) = 2
    /\ PointersOfLast # last.ret.key
    /\ [args |-> IdsOf(last.list), ret |-> last.ret] \in calls

\* C2: mShaders holds exactly the (path, stage) pairs registered so far, each
\* with a native shader of its own, and as many native shaders were created
\* as there are pairs; one path under two stages makes two entries.
C2_OneShaderPerIdentity ==
    /\ DOMAIN mShaders = Registered
    /\ \A id \in DOMAIN mShaders : mShaders[id].Handle \in DOMAIN glShaders
    /\ \A x, y \in DOMAIN mShaders :
          x # y => mShaders[x].Handle # mShaders[y].Handle
    /\ Cardinality(DOMAIN glShaders) = Cardinality(Registered)

\* one path registered under two stages, after a repeated registration
C2_Witness ==
    /\ last.again
    /\ Len(last.list) = 2
    /\ last.list[1] = last.list[2]
    /\ \E x, y \in DOMAIN mShaders : x.Name = y.Name /\ x.Type # y.Type
    /\ Cardinality(DOMAIN glShaders) = 2

\* the update step of a behaviour
UpdateStep == last'.op = "UpdatePrograms"
\* the native shader of a registered identity
ShaderOf(id) == mShaders[id].Handle

\* C3 (as claimed): when a shader that was compiled becomes uncompilable in a
\* pass, a valid program holding it is not linked in that pass and keeps its
\* public handle.
C3_FailedCompileSkipsLink ==
    [][UpdateStep =>
        \A key \in DOMAIN mPrograms :
            (/\ mPrograms[key].PublicHandle # 0
             /\ \E id \in KeyIds(nodeAddr, key) :
                   /\ id \in last'.updated
                   /\ glShaders[ShaderOf(id)].compiled
                   /\ ~glShaders'[ShaderOf(id)].compiled)
            => /\ key \notin DOMAIN last'.linked
               /\ mPrograms'[key].PublicHandle = mPrograms[key].PublicHandle]_vars

\* C4: a program's public handle is 0 when it is registered, and leaves 0
\* only in an UpdatePrograms step that links the program with success, all
\* its shaders being compiled.
C4_InvalidUntilLinked ==
    [][\A key \in DOMAIN mPrograms' :
          /\ key \notin DOMAIN mPrograms => mPrograms'[key].PublicHandle = 0
          /\ (/\ key \in DOMAIN mPrograms
              /\ mPrograms[key].PublicHandle = 0
              /\ mPrograms'[key].PublicHandle # 0)
             => /\ UpdateStep
                /\ key \in DOMAIN last'.linked
                /\ glPrograms'[mPrograms[key].InternalHandle].linked
                /\ \A id \in KeyIds(nodeAddr, key) :
                      glShaders'[ShaderOf(id)].compiled]_vars

\* a pass has failed to link a program, a later pass has linked it, for the
\* first time with success
C4_Witness ==
    /\ last.op = "UpdatePrograms"
    /\ \E key \in DOMAIN last.linked :
          /\ last.linked[key].status
          /\ last.linked[key].was = 0
          /\ mPrograms[key].PublicHandle # 0
          /\ \E id \in KeyIds(nodeAddr, key) : mShaders[id].Timestamp > 1

\* C5: every link of UpdatePrograms leaves the internal handle as it was and
\* sets the public handle to it when the link status is success, to 0 when
\* it is failure.
C5_LinkSetsPublicHandle ==
    [][UpdateStep =>
        \A key \in DOMAIN last'.linked :
            /\ mPrograms'[key].InternalHandle = mPrograms[key].InternalHandle
            /\ glPrograms'[mPrograms[key].InternalHandle].linked
                  => mPrograms'[key].PublicHandle = mPrograms[key].InternalHandle
            /\ ~glPrograms'[mPrograms[key].InternalHandle].linked
                  => mPrograms'[key].PublicHandle = 0]_vars

\* a relink has failed on a program whose public handle was valid
C5_Witness ==
    /\ last.op = "UpdatePrograms"
    /\ \E key \in DOMAIN last.linked :
          /\ ~last.linked[key].status
          /\ last.linked[key].was # 0
          /\ last.linked[key].was = mPrograms[key].InternalHandle
          /\ mPrograms[key].PublicHandle = 0

\* the modification time a poll of the file gives
PolledTime(path) == IF files[path].exists THEN files[path].time ELSE 0

\* C6: in a pass, a shader whose polled timestamp is not greater than the
\* stored one is not recompiled and keeps its stored timestamp; one whose
\* polled timestamp is greater is marked changed and stores the polled value;
\* a pass that follows a pass at once compiles and links nothing.
C6_TimestampIsTheOnlySignal ==
    [][UpdateStep =>
        /\ \A id \in DOMAIN mShaders :
              IF PolledTime(id.Name) > mShaders[id].Timestamp
              THEN /\ id \in last'.updated
                   /\ mShaders'[id].Timestamp = PolledTime(id.Name)
              ELSE /\ id \notin last'.updated
                   /\ mShaders'[id].Timestamp = mShaders[id].Timestamp
                   /\ glShaders'[ShaderOf(id)] = glShaders[ShaderOf(id)]
        /\ last.op = "UpdatePrograms"
              => /\ last'.updated = {}
                 /\ DOMAIN last'.linked = {}
                 /\ UNCHANGED <<mShaders, glShaders, mPrograms, glPrograms>>]_vars

\* a pass has left alone a compiled shader whose file now holds another text
\* under the timestamp the shader has stored
C6_Witness ==
    /\ last.op = "UpdatePrograms"
    /\ \E id \in DOMAIN mShaders :
          /\ id \notin last.updated
          /\ files[id.Name].exists
          /\ files[id.Name].time = mShaders[id].Timestamp
          /\ glShaders[ShaderOf(id)].source # <<>>
          /\ glShaders[ShaderOf(id)].source[3] # files[id.Name].text \o <<"\n">>

\* the define that names the stage being compiled
StageDefine(type) == <<"#define ", type, "\n">>

\* C7 (as claimed): the source handed to the compiler is the version
\* directive, a define of the stage, the preamble and the text of the file,
\* in this order.
C7_SourceHasStageDefine ==
    [][UpdateStep =>
        \A id \in last'.updated :
            Joined(glShaders'[ShaderOf(id)].source) =
                <<"#version ">> \o mVersion \o <<"\n">>
                \o StageDefine(id.Type)
                \o mPreamble \o <<"\n">>
                \o files[id.Name].text \o <<"\n">>]_vars

\* the extensions of the table
KnownExts == {<<"vert">>, <<"frag">>, <<"geom">>, <<"tesc">>, <<"tese">>, <<"comp">>}
\* a path without '.', or whose text after the last '.' is not in the table
Offending(path) ==
    \/ \A i \in 1..Len(path) : path[i] # "."
    \/ \E i \in 1..Len(path) :
          /\ path[i] = "."
          /\ \A j \in (i + 1)..Len(path) : path[j] # "."
          /\ SubSeq(path, i + 1, Len(path)) \notin KnownExts

\* C8: AddProgramFromExts given a list with an offending path returns null
\* and leaves mShaders, mPrograms and the native objects as they were.
C8_BadExtensionChangesNothing ==
    [][(/\ last'.op = "AddProgramFromExts"
        /\ \E i \in 1..Len(last'.list) : Offending(last'.list[i]))
       => /\ last'.ret.null
          /\ UNCHANGED <<mShaders, nodeAddr, mPrograms, glShaders, glPrograms>>]_vars

\* a call whose offending path follows a valid one has returned null, no
\* shader being registered
C8_Witness ==
    /\ last.op = "AddProgramFromExts"
    /\ last.ret.null
    /\ Len(last.list) = 2
    /\ ~Offending(last.list[1])
    /\ Offending(last.list[2])
    /\ DOMAIN mShaders = {}
    /\ DOMAIN glShaders = {}

\* C9: in a pass, a shader whose file is unreadable is not marked changed, is
\* not recompiled and keeps its stored timestamp, and a program holding it is
\* not linked and keeps its handles unless another of its shaders changed.
C9_UnreadableFileIsNoChange ==
    [][UpdateStep =>
        \A id \in DOMAIN mShaders :
            ~files[id.Name].exists
            => /\ id \notin last'.updated
               /\ mShaders'[id] = mShaders[id]
               /\ glShaders'[ShaderOf(id)] = glShaders[ShaderOf(id)]
               /\ \A key \in DOMAIN mPrograms :
                     (/\ id \in KeyIds(nodeAddr, key)
                      /\ KeyIds(nodeAddr, key) \cap last'.updated = {})
                     => /\ key \notin DOMAIN last'.linked
                        /\ mPrograms'[key] = mPrograms[key]]_vars

\* a pass has run while the file of a compiled shader was unreadable, and a
\* valid program holding the shader was left alone
C9_Witness ==
    /\ last.op = "UpdatePrograms"
    /\ \E id \in DOMAIN mShaders :
          /\ ~files[id.Name].exists
          /\ mShaders[id].Timestamp > 0
          /\ glShaders[ShaderOf(id)].compiled
          /\ \E key \in DOMAIN mPrograms :
                /\ id \in KeyIds(nodeAddr, key)
                /\ key \notin DOMAIN last.linked
                /\ mPrograms[key].PublicHandle # 0

\* C10: every program's public handle is 0 or the program's own internal
\* handle, which no other program has.
C10_PublicIsZeroOrInternal ==
    /\ \A key \in DOMAIN mPrograms :
          /\ mPrograms[key].InternalHandle # 0
          /\ mPrograms[key].PublicHandle \in {0, mPrograms[key].InternalHandle}
    /\ \A k1, k2 \in DOMAIN mPrograms :
          k1 # k2 => mPrograms[k1].InternalHandle # mPrograms[k2].InternalHandle

\* after a pass, one program is valid and another is not
C10_Witness ==
    /\ last.op = "UpdatePrograms"
    /\ \E k1, k2 \in DOMAIN mPrograms :
          /\ mPrograms[k1].PublicHandle = mPrograms[k1].InternalHandle
          /\ mPrograms[k2].PublicHandle = 0
          /\ k2 \in DOMAIN last.linked

\* the table from extensions to stages
ExtTable ==
    [e \in KnownExts |->
        CASE e = <<"vert">> -> "GL_VERTEX_SHADER"
          [] e = <<"frag">> -> "GL_FRAGMENT_SHADER"
          [] e = <<"geom">> -> "GL_GEOMETRY_SHADER"
          [] e = <<"tesc">> -> "GL_TESS_CONTROL_SHADER"
          [] e = <<"tese">> -> "GL_TESS_EVALUATION_SHADER"
          [] e = <<"comp">> -> "GL_COMPUTE_SHADER"]
\* the text after the last '.' of a path that has one
ExtOf(path) ==
    LET i == CHOOSE k \in 1..Len(path) :
                 path[k] = "." /\ \A j \in (k + 1)..Len(path) : path[j] # "."
    IN SubSeq(path, i + 1, Len(path))
\* the paths paired with the stages the table gives them
PairedByTable(paths) ==
    [i \in 1..Len(paths) |-> <<paths[i], ExtTable[ExtOf(paths[i])]>>]
\* the tables after a step
TablesAfter == [shaders |-> mShaders', addr |-> nodeAddr', programs |-> mPrograms',
                glS |-> glShaders', glP |-> glPrograms']

\* C11: AddProgramFromExts on paths that all end in an extension of the table
\* leaves the registry that AddProgram leaves on the paths paired with the
\* stages of the table, the map nodes placed alike, and returns the pointer
\* AddProgram returns; the stage of a path is the table's entry for the text
\* after its last '.'.
C11_FromExtsIsAddProgram ==
    [][(/\ last'.op = "AddProgramFromExts"
        /\ \A i \in 1..Len(last'.list) : ~Offending(last'.list[i]))
       => /\ \A e \in KnownExts :
                /\ TypeOfPath(<<"x", ".">> \o e) = ExtTable[e]
                /\ TypeOfPath(<<"x", ".", "frag", ".">> \o e) = ExtTable[e]
          /\ IdsOf(PairedByTable(last'.list)) \subseteq DOMAIN nodeAddr'
          /\ AddProgramResult(PairedByTable(last'.list), nodeAddr')
                = [t |-> TablesAfter, ret |-> last'.ret]
          /\ calls' = calls \cup {[args |-> IdsOf(PairedByTable(last'.list)),
                                   ret |-> last'.ret]}]_vars

\* a call on a vertex and a fragment path has registered a new program
C11_Witness ==
    /\ last.op = "AddProgramFromExts"
    /\ ~last.ret.null
    /\ ~last.again
    /\ Len(last.list) = 2
    /\ {id.Type : id \in KeyIds(nodeAddr, last.ret.key)}
          = {"GL_VERTEX_SHADER", "GL_FRAGMENT_SHADER"}
    /\ mPrograms[last.ret.key].PublicHandle = 0

\* the shaders of a program whose file a poll finds newer than stored
Advanced(key) ==
    {id \in KeyIds(nodeAddr, key) : PolledTime(id.Name) > mShaders[id].Timestamp}

\* C12: a pass handles every shader and every program: every shader whose
\* file is newer is given the new text and compiled, whatever the other
\* compiles give, and every program holding such a shader is linked, whatever
\* the other links give; the registries keep all their entries.
C12_PassIsComplete ==
    [][UpdateStep =>
        /\ \A id \in DOMAIN mShaders :
              PolledTime(id.Name) > mShaders[id].Timestamp
              => /\ mShaders'[id].Timestamp = PolledTime(id.Name)
                 /\ glShaders'[ShaderOf(id)].source # <<>>
                 /\ glShaders'[ShaderOf(id)].source[3] = files[id.Name].text \o <<"\n">>
        /\ \A key \in DOMAIN mPrograms :
              Advanced(key) # {}
              => /\ key \in DOMAIN last'.linked
                 /\ glPrograms'[mPrograms[key].InternalHandle].linked
                       = last'.linked[key].status
        /\ DOMAIN mShaders' = DOMAIN mShaders
        /\ DOMAIN mPrograms' = DOMAIN mPrograms
        /\ DOMAIN glShaders' = DOMAIN glShaders
        /\ DOMAIN glPrograms' = DOMAIN glPrograms]_vars

\* one pass has compiled one shader and failed to compile another, has
\* linked one program and failed to link another
C12_Witness ==
    /\ last.op = "UpdatePrograms"
    /\ \E x, y \in last.updated :
          /\ glShaders[ShaderOf(x)].compiled
          /\ ~glShaders[ShaderOf(y)].compiled
          /\ glShaders[ShaderOf(y)].source[3] = BadText \o <<"\n">>
    /\ \E k1, k2 \in DOMAIN last.linked :
          /\ last.linked[k1].status
          /\ ~last.linked[k2].status

\* the steps that set the version or the preamble
SetterStep == last'.op \in {"SetVersion", "SetPreamble", "SetPreambleFile"}

\* C13: the preamble is read when it is set and never again: a step of the
\* file system leaves the stored preamble and version alone, a pass marks
\* the shaders whose own file is newer and no others, compiles them with the
\* stored preamble, and does nothing when no shader file is newer; setting
\* the version or the preamble touches no shader and no program.
C13_PreambleIsCached ==
    [][/\ last'.op = "files" => UNCHANGED <<mPreamble, mVersion>>
       /\ SetterStep => UNCHANGED <<mShaders, glShaders, mPrograms, glPrograms>>
       /\ UpdateStep =>
            /\ UNCHANGED <<mPreamble, mVersion>>
            /\ last'.updated =
                  {id \in DOMAIN mShaders :
                      PolledTime(id.Name) > mShaders[id].Timestamp}
            /\ \A id \in last'.updated :
                  glShaders'[ShaderOf(id)].source[2] = mPreamble \o <<"\n">>
            /\ last'.updated = {}
                  => /\ DOMAIN last'.linked = {}
                     /\ UNCHANGED <<mShaders, glShaders, mPrograms, glPrograms>>]_vars

\* the preamble was read from its file, the file has then been rewritten with
\* a newer timestamp, and a pass has left the compiled shader alone
C13_Witness ==
    /\ last.op = "UpdatePrograms"
    /\ last.updated = {}
    /\ mPreamble = GoodText
    /\ files[PreambleFile] = [exists |-> TRUE, time |-> 2, text |-> BadText]
    /\ \E id \in DOMAIN mShaders :
          /\ mShaders[id].Timestamp = 1
          /\ glShaders[ShaderOf(id)].compiled
          /\ glShaders[ShaderOf(id)].source[2] = GoodText \o <<"\n">>

\* C14: the destructor hands every native shader and every native program
\* that was created to glDeleteShader / glDeleteProgram once, hands them
\* nothing else, and no native object is left.
C14_TeardownReleasesAll ==
    [][last'.op = "~ShaderSet" =>
        /\ last'.deleted.shaders = [h \in DOMAIN glShaders |-> 1]
        /\ last'.deleted.programs = [h \in DOMAIN glPrograms |-> 1]
        /\ DOMAIN glShaders' = {}
        /\ DOMAIN glPrograms' = {}]_vars

\* a registry of two shaders and three programs has been destroyed
C14_Witness ==
    /\ last.op = "~ShaderSet"
    /\ Cardinality(DOMAIN last.deleted.shaders) = 2
    /\ Cardinality(DOMAIN last.deleted.programs) = 3
    /\ Cardinality(calls) = 3
    /\ mShaders = EmptyMap
    /\ mPrograms = EmptyMap

\* C15: a pass links exactly the programs that hold a shader marked changed
\* in the pass; a program that holds none keeps its handles and its native
\* program is left as it is, whatever happens to the other programs.
C15_RelinkIffShaderChanged ==
    [][UpdateStep =>
        \A key \in DOMAIN mPrograms :
            /\ key \in DOMAIN last'.linked
                  <=> KeyIds(nodeAddr, key) \cap last'.updated # {}
            /\ Advanced(key) = {}
                  => /\ key \notin DOMAIN last'.linked
                     /\ mPrograms'[key] = mPrograms[key]
                     /\ glPrograms'[mPrograms[key].InternalHandle]
                           = glPrograms[mPrograms[key].InternalHandle]]_vars

\* a pass has linked one program and has left alone a valid one that holds
\* none of the changed shaders
C15_Witness ==
    /\ last.op = "UpdatePrograms"
    /\ \E k1, k2 \in DOMAIN mPrograms :
          /\ k1 \in DOMAIN last.linked
          /\ k2 \notin DOMAIN last.linked
          /\ KeyIds(nodeAddr, k2) \cap last.updated = {}
          /\ KeyIds(nodeAddr, k2) \cap KeyIds(nodeAddr, k1) # {}
          /\ mPrograms[k2].PublicHandle = mPrograms[k2].InternalHandle

\* the steps that register a program
RegistrationStep == last'.op \in {"AddProgram", "AddProgramFromExts"}

\* C16: a registration gives a new shader timestamp 0 and a native shader
\* without source, not compiled, gives a new program a native program that
\* is not linked, and leaves every existing entry and native object as it
\* is; the next pass compiles a shader that is still at timestamp 0 when its
\* file is readable, and stores the file's timestamp.
C16_RegistrationCompilesNothing ==
    [][/\ RegistrationStep =>
            /\ \A id \in DOMAIN mShaders' \ DOMAIN mShaders :
                  /\ mShaders'[id].Timestamp = 0
                  /\ glShaders'[mShaders'[id].Handle]
                        = [type |-> id.Type, source |-> <<>>, compiled |-> FALSE]
            /\ \A id \in DOMAIN mShaders : mShaders'[id] = mShaders[id]
            /\ \A h \in DOMAIN glShaders : glShaders'[h] = glShaders[h]
            /\ \A key \in DOMAIN mPrograms : mPrograms'[key] = mPrograms[key]
            /\ \A h \in DOMAIN glPrograms : glPrograms'[h] = glPrograms[h]
            /\ \A h \in DOMAIN glPrograms' \ DOMAIN glPrograms : ~glPrograms'[h].linked
       /\ UpdateStep =>
            \A id \in DOMAIN mShaders :
                (/\ mShaders[id].Timestamp = 0
                 /\ files[id.Name].exists
                 /\ files[id.Name].time > 0)
                => /\ glShaders[ShaderOf(id)].source = <<>>
                   /\ id \in last'.updated
                   /\ glShaders'[ShaderOf(id)].source[3] = files[id.Name].text \o <<"\n">>
                   /\ mShaders'[id].Timestamp = files[id.Name].time]_vars

\* a registration has added a shader next to one that is compiled and a
\* program next to one that is valid
C16_Witness ==
    /\ last.op \in {"AddProgram", "AddProgramFromExts"}
    /\ ~last.ret.null
    /\ mPrograms[last.ret.key].PublicHandle = 0
    /\ \E new, old \in KeyIds(nodeAddr, last.ret.key) :
          /\ mShaders[new].Timestamp = 0
          /\ glShaders[ShaderOf(new)].source = <<>>
          /\ files[new.Name].exists
          /\ mShaders[old].Timestamp > 0
          /\ glShaders[ShaderOf(old)].compiled
    /\ \E key \in DOMAIN mPrograms : mPrograms[key].PublicHandle # 0

\* C17: a program whose latest link failed has public handle 0, is linked
\* again in a pass that finds one of its shaders newer, and when that link
\* succeeds all its shaders are compiled and the public handle, read through
\* the pointer AddProgram returned, is the internal handle, which is the one
\* the program had.
C17_RecoversAfterFailedLink ==
    [][UpdateStep =>
        \A key \in linkFailed :
            /\ mPrograms[key].PublicHandle = 0
            /\ Advanced(key) # {} => key \in DOMAIN last'.linked
            /\ (/\ key \in DOMAIN last'.linked
                /\ glPrograms'[mPrograms[key].InternalHandle].linked)
               => /\ \A id \in KeyIds(nodeAddr, key) :
                        glShaders'[ShaderOf(id)].compiled
                  /\ mPrograms'[key].InternalHandle = mPrograms[key].InternalHandle
                  /\ mPrograms'[key].PublicHandle = mPrograms[key].InternalHandle
                  /\ mPrograms'[key].PublicHandle # 0
                  /\ \E c \in calls : c.ret = RefTo(key)
                  /\ key \notin linkFailed']_vars

\* a program whose latest link had failed has been linked again, with
\* success, after a file of its shaders was rewritten
C17_Witness ==
    /\ last.op = "UpdatePrograms"
    /\ \E key \in DOMAIN last.linked :
          /\ last.linked[key].retry
          /\ last.linked[key].status
          /\ last.linked[key].was = 0
          /\ mPrograms[key].PublicHandle = mPrograms[key].InternalHandle
          /\ \A id \in KeyIds(nodeAddr, key) : glShaders[ShaderOf(id)].compiled
          /\ \E id \in KeyIds(nodeAddr, key) : mShaders[id].Timestamp > 1

\* C18: no step changes the native handle of a shader entry or the internal
\* handle of a program entry, removes an entry or a native object, or changes
\* the stage of a native shader; handles are never 0.
C18_HandlesAreStable ==
    [][/\ \A id \in DOMAIN mShaders :
             /\ id \in DOMAIN mShaders'
             /\ mShaders'[id].Handle = mShaders[id].Handle
       /\ \A key \in DOMAIN mPrograms :
             /\ key \in DOMAIN mPrograms'
             /\ mPrograms'[key].InternalHandle = mPrograms[key].InternalHandle
       /\ \A h \in DOMAIN glShaders :
             /\ h \in DOMAIN glShaders'
             /\ glShaders'[h].type = glShaders[h].type
       /\ DOMAIN glPrograms \subseteq DOMAIN glPrograms'
       /\ \A id \in DOMAIN mShaders' : mShaders'[id].Handle # 0
       /\ \A key \in DOMAIN mPrograms' : mPrograms'[key].InternalHandle # 0]_vars

\* a program that has been linked, and whose shader has been compiled a
\* second time, has been registered again
C18_Witness ==
    /\ last.op \in {"AddProgram", "AddProgramFromExts"}
    /\ last.again
    /\ mPrograms[last.ret.key].PublicHandle = mPrograms[last.ret.key].InternalHandle
    /\ \E id \in KeyIds(nodeAddr, last.ret.key) :
          /\ mShaders[id].Timestamp > 1
          /\ glShaders[ShaderOf(id)].compiled
    /\ Cardinality(DOMAIN glPrograms) = Cardinality(DOMAIN mPrograms)
    /\ Cardinality(DOMAIN glShaders) = Cardinality(DOMAIN mShaders)

\* C19: the native program of every program entry has each shader of the key
\* attached once, the shader's native object existing, and nothing else
\* attached; no step changes what is attached to an existing native program.
C19_AttachedOnceAtCreation ==
    [][/\ \A key \in DOMAIN mPrograms' :
             LET att == glPrograms'[mPrograms'[key].InternalHandle].attached
             IN /\ \A id \in KeyIds(nodeAddr', key) :
                      /\ mShaders'[id].Handle \in DOMAIN glShaders'
                      /\ Cardinality({i \in DOMAIN att : att[i] = mShaders'[id].Handle}) = 1
                /\ Len(att) = Cardinality(KeyIds(nodeAddr', key))
       /\ \A h \in DOMAIN glPrograms :
             glPrograms'[h].attached = glPrograms[h].attached]_vars

\* a program of two shaders that a pass has linked has been registered again
C19_Witness ==
    /\ last.op \in {"AddProgram", "AddProgramFromExts"}
    /\ last.again
    /\ Len(last.ret.key) = 2
    /\ glPrograms[mPrograms[last.ret.key].InternalHandle].linked
    /\ Len(glPrograms[mPrograms[last.ret.key].InternalHandle].attached) = 2
    /\ \E id \in KeyIds(nodeAddr, last.ret.key) :
          \E key \in DOMAIN mPrograms :
              key # last.ret.key /\ id \in KeyIds(nodeAddr, key)

\* C20: every key of mPrograms holds no pointer twice, and every pointer in
\* it is the address of an entry of mShaders whose native shader has been
\* created.
C20_KeysAreDuplicateFree ==
    \A key \in DOMAIN mPrograms :
        /\ \A i, j \in 1..Len(key) : i # j => key[i] # key[j]
        /\ \A i \in 1..Len(key) :
              \E id \in DOMAIN mShaders :
                  /\ nodeAddr[id] = key[i]
                  /\ mShaders[id].Handle # 0
                  /\ mShaders[id].Handle \in DOMAIN glShaders
                  /\ glShaders[mShaders[id].Handle].type = id.Type

\* a list that names one shader twice has registered a program with a key
\* of one pointer, next to a program of two shaders
C20_Witness ==
    /\ last.op = "AddProgram"
    /\ Len(last.list) = 2
    /\ last.list[1] = last.list[2]
    /\ Len(last.ret.key) = 1
    /\ \E key \in DOMAIN mPrograms : Len(key) = 2

\* C21: a registration leaves the handles of every program that is already
\* registered, and the stored timestamp of every shader, as they are; the
\* handles of a registered program change only in a pass that links it.
C21_RegistrationKeepsHandles ==
    [][/\ RegistrationStep =>
            /\ \A key \in DOMAIN mPrograms : mPrograms'[key] = mPrograms[key]
            /\ \A id \in DOMAIN mShaders :
                  mShaders'[id].Timestamp = mShaders[id].Timestamp
       /\ \A key \in DOMAIN mPrograms :
             mPrograms'[key] # mPrograms[key]
             => UpdateStep /\ key \in DOMAIN last'.linked]_vars

\* a program whose latest link failed has been registered again, next to a
\* valid program and a shader that has been compiled
C21_Witness ==
    /\ last.op \in {"AddProgram", "AddProgramFromExts"}
    /\ last.again
    /\ last.ret.key \in linkFailed
    /\ mPrograms[last.ret.key].PublicHandle = 0
    /\ \E key \in DOMAIN mPrograms : mPrograms[key].PublicHandle # 0
    /\ \E id \in DOMAIN mShaders : mShaders[id].Timestamp > 1

\* a shader whose latest compile failed
CompileFailed(id) ==
    /\ glShaders[ShaderOf(id)].source # <<>>
    /\ ~glShaders[ShaderOf(id)].compiled

\* C22: a pass stores the polled timestamp of every shader whose file is
\* newer, whether the compile succeeds or fails; a shader whose compile has
\* failed is left alone by a pass that does not find its file newer than the
\* stored timestamp, and is compiled again by one that does.
C22_FailedCompileIsNotRetried ==
    [][UpdateStep =>
        \A id \in DOMAIN mShaders :
            /\ PolledTime(id.Name) > mShaders[id].Timestamp
                  => /\ mShaders'[id].Timestamp = PolledTime(id.Name)
                     /\ glShaders'[ShaderOf(id)].source[3]
                           = files[id.Name].text \o <<"\n">>
            /\ (CompileFailed(id) /\ PolledTime(id.Name) <= mShaders[id].Timestamp)
                  => /\ id \notin last'.updated
                     /\ glShaders'[ShaderOf(id)] = glShaders[ShaderOf(id)]
                     /\ mShaders'[id] = mShaders[id]]_vars

\* a shader failed to compile, its file was then repaired under the same
\* timestamp, and a pass has left the shader uncompiled
C22_Witness ==
    /\ last.op = "UpdatePrograms"
    /\ \E id \in DOMAIN mShaders :
          /\ CompileFailed(id)
          /\ id \notin last.updated
          /\ glShaders[ShaderOf(id)].source[3] = BadText \o <<"\n">>
          /\ files[id.Name] = [exists |-> TRUE, time |-> mShaders[id].Timestamp,
                               text |-> GoodText]

\* a program that glLinkProgram has never been called on
NeverLinked(key) ==
    /\ ~glPrograms[mPrograms[key].InternalHandle].linked
    /\ key \notin linkFailed

\* C23: a program that is registered has public handle 0, and a program that
\* has never been linked stays so, with public handle 0, through every step
\* but a pass that finds the file of one of its shaders newer than the
\* stored timestamp; this holds as well when all its shaders are compiled and
\* up to date.
C23_NewProgramWaitsForAFile ==
    [][/\ \A key \in DOMAIN mPrograms' \ DOMAIN mPrograms :
             mPrograms'[key].PublicHandle = 0
       /\ \A key \in DOMAIN mPrograms :
             (NeverLinked(key) /\ ~(UpdateStep /\ Advanced(key) # {}))
             => /\ mPrograms[key].PublicHandle = 0
                /\ mPrograms'[key].PublicHandle = 0
                /\ ~glPrograms'[mPrograms'[key].InternalHandle].linked
                /\ key \notin linkFailed'
                /\ UpdateStep => key \notin DOMAIN last'.linked]_vars

\* a pass has left at 0 a program that was never linked although its one
\* shader is compiled and up to date, and another program holding the shader
\* is valid
C23_Witness ==
    /\ last.op = "UpdatePrograms"
    /\ \E key \in DOMAIN mPrograms :
          /\ NeverLinked(key)
          /\ mPrograms[key].PublicHandle = 0
          /\ key \notin DOMAIN last.linked
          /\ \A id \in KeyIds(nodeAddr, key) :
                /\ glShaders[ShaderOf(id)].compiled
                /\ files[id.Name].exists
                /\ files[id.Name].time = mShaders[id].Timestamp
          /\ \E other \in DOMAIN mPrograms :
                /\ KeyIds(nodeAddr, key) \subseteq KeyIds(nodeAddr, other)
                /\ mPrograms[other].PublicHandle # 0

====
